---- MODULE Spec2Model ----
(***************************************************************************)
(* dependency-db (src/index.js): a reverse dependency index over an        *)
(* ordered key-value store.  Strings are modelled as sequences of          *)
(* one-character strings so that escaping, key order and the bytewise      *)
(* comparisons of packed versions are computed, not assumed.  One Db      *)
(* handle over one store is modelled; the names of the model are a few of *)
(* the names stored, so the latest-version cache (1000 names) can evict   *)
(* any of them.                                                           *)
(***************************************************************************)
EXTENDS Integers, Sequences, FiniteSets, TLC

(***************************************************************************)
(* Bounds of the model.                                                    *)
(***************************************************************************)
\* greatest minor / patch number of the versions the range functions are tried on
MaxMinor == 1
MaxPatch == 1
\* package versions stored in the database are 1.0.0 .. MaxVersion.0.0
MaxVersion == 2
\* calls made on one database handle in one behaviour, when calls overlap
MaxCalls == 3
\* calls made in one behaviour when each call completes before the next is made
MaxSeqCalls == 4
\* calls made on the handle opened over a stale entry
MaxLiveCalls == 2

(***************************************************************************)
(* Strings: bytewise comparison, as JavaScript's < on strings.             *)
(***************************************************************************)
\* the byte "\x00"
NUL == "NUL"
\* the byte "\xff"
XFF == "XFF"

HexDigits == <<"0", "1", "2", "3", "4", "5", "6", "7", "8", "9", "a", "b", "c", "d", "e", "f">>

CharCode(c) ==
  CASE c = NUL -> 0
    [] c = "!" -> 33
    [] c = "%" -> 37
    [] c = "." -> 46
    [] c = "@" -> 64
    [] c = XFF -> 255
    [] \E i \in 1..10 : HexDigits[i] = c -> 47 + (CHOOSE i \in 1..10 : HexDigits[i] = c)
    [] c = "a" -> 97
    [] c = "b" -> 98
    [] c = "c" -> 99
    [] c = "d" -> 100
    [] c = "e" -> 101
    [] c = "f" -> 102
    [] c = "m" -> 109
    [] c = "n" -> 110
    [] c = "o" -> 111

RECURSIVE StrLess(_, _)
\* a < b for two strings
StrLess(a, b) ==
  IF b = <<>> THEN FALSE
  ELSE IF a = <<>> THEN TRUE
  ELSE IF CharCode(Head(a)) # CharCode(Head(b)) THEN CharCode(Head(a)) < CharCode(Head(b))
  ELSE StrLess(Tail(a), Tail(b))

StrLeq(a, b) == a = b \/ StrLess(a, b)

RECURSIVE Concat(_)
\* the concatenation of a sequence of strings
Concat(ss) == IF ss = <<>> THEN <<>> ELSE Head(ss) \o Concat(Tail(ss))

(***************************************************************************)
(* escape(): the global escape function applied to every name in a key.    *)
(***************************************************************************)
\* the characters escape() leaves alone, among those the model uses
Unescaped == {"a", "b", "c", "d", "e", "f", "m", "n", "o", "@", ".",
              "0", "1", "2", "3", "4", "5", "6", "7", "8", "9"}

EscapeChar(c) ==
  IF c \in Unescaped THEN <<c>>
  ELSE <<"%", HexDigits[(CharCode(c) \div 16) + 1], HexDigits[(CharCode(c) % 16) + 1]>>

escape(name) == Concat([i \in 1..Len(name) |-> EscapeChar(name[i])])

(***************************************************************************)
(* Version codec: lexSemver and lexicographic-integer's pack(n, 'hex').    *)
(***************************************************************************)
Hex2(b) == <<HexDigits[(b \div 16) + 1], HexDigits[(b % 16) + 1]>>

\* one byte below 251, the byte 251 and one more byte up to 506
lexiPack(n) == IF n < 251 THEN Hex2(n) ELSE Hex2(251) \o Hex2(n - 251)

lexSemver(semver) ==
  lexiPack(semver.major) \o <<"!">> \o lexiPack(semver.minor) \o <<"!">> \o lexiPack(semver.patch)

SemVer(ma, mi, pa) == [major |-> ma, minor |-> mi, patch |-> pa]

IncPatch(v) == [major |-> v.major, minor |-> v.minor, patch |-> v.patch + 1]

\* a comparator of a parsed range; operator "any" is the undefined operator of '*'
Comparator(op, v) == [operator |-> op, semver |-> v]

AnyComparator == Comparator("any", SemVer(0, 0, 0))

(***************************************************************************)
(* Write side: the value batchDependencies stores for a parsed range.      *)
(***************************************************************************)
\* the lower bounds one comparator pushes to set[0]
EncodeLower(c) ==
  CASE c.operator = "any" -> <<lexSemver(SemVer(0, 0, 0))>>
    [] c.operator = "" -> <<lexSemver(c.semver)>>
    [] c.operator \in {">", ">="} -> <<lexSemver(c.semver)>>
    [] OTHER -> <<>>

\* the upper bounds one comparator pushes to set[1]
EncodeUpper(c) ==
  CASE c.operator = "" -> <<lexSemver(IncPatch(c.semver))>>
    [] c.operator \in {"<", "<="} -> <<lexSemver(c.semver)>>
    [] OTHER -> <<>>

EncodeSet(comparators) ==
  << Concat([i \in 1..Len(comparators) |-> EncodeLower(comparators[i])]),
     Concat([i \in 1..Len(comparators) |-> EncodeUpper(comparators[i])]) >>

\* value: one [lowers, uppers] pair per group of the disjunction
EncodeRange(sets) == [i \in 1..Len(sets) |-> EncodeSet(sets[i])]

(***************************************************************************)
(* Read side: normalize, normalizeLower, normalizeUpper, match.            *)
(***************************************************************************)
\* a function either returns a value or throws
Returns(v) == [thrown |-> FALSE, value |-> v]
Throws == [thrown |-> TRUE, value |-> <<>>]

normalizeLower(comp) ==
  CASE comp.operator = ">=" -> Returns(comp.semver)
    [] comp.operator = ">" -> Returns(IncPatch(comp.semver))
    [] OTHER -> Throws

normalizeUpper(comp) ==
  CASE comp.operator = "<" -> Returns(comp.semver)
    [] comp.operator = "<=" -> Returns(IncPatch(comp.semver))
    [] OTHER -> Throws

\* the list normalize returns, unless it throws
normalize(comparators) ==
  IF Len(comparators) > 2 THEN Throws
  ELSE IF Len(comparators) = 1
  THEN LET lower == comparators[1] IN
       CASE lower.operator = "any" -> Returns(<<>>)
         [] lower.operator = "" -> Returns(<<lower.semver, IncPatch(lower.semver)>>)
         [] lower.operator = "<" -> Returns(<<SemVer(0, 0, 0), lower.semver>>)
         [] lower.operator = "<=" -> Returns(<<SemVer(0, 0, 0), IncPatch(lower.semver)>>)
         [] lower.operator = ">" -> Returns(<<IncPatch(lower.semver)>>)
         [] lower.operator = ">=" -> Returns(<<lower.semver>>)
         [] OTHER -> Throws
  ELSE LET lo == normalizeLower(comparators[1])
           up == normalizeUpper(comparators[2]) IN
       IF lo.thrown \/ up.thrown THEN Throws ELSE Returns(<<lo.value, up.value>>)

\* lquery and uquery of Db.prototype.query
LQuery(norm) == IF Len(norm) >= 1 THEN lexSemver(norm[1]) ELSE <<NUL>>
UQuery(norm) == IF Len(norm) >= 2 THEN lexSemver(norm[2]) ELSE <<XFF>>

matchGroup(range, lquery, uquery) ==
  LET lower == range[1]
      upper == range[2] IN
  /\ ~(Len(lower) = 0 /\ StrLeq(uquery, <<NUL>>))
  /\ ~(Len(upper) = 0 /\ StrLeq(<<XFF>>, lquery))
  /\ \A i \in 1..Len(lower) : StrLess(lower[i], uquery)
  /\ \A i \in 1..Len(upper) : StrLess(lquery, upper[i])

match(range, lquery, uquery) ==
  \E g \in 1..Len(range) : matchGroup(range[g], lquery, uquery)

(***************************************************************************)
(* Versions of packages: the dotted string of pkg.version, as its numbers. *)
(***************************************************************************)
\* what a get of an absent key, or a cache miss, yields
NoVersion == <<>>

VersionString(v) ==
  <<HexDigits[v[1] + 1], ".", HexDigits[v[2] + 1], ".", HexDigits[v[3] + 1]>>

\* semver-compare: 1, 0 or -1
cmp(a, b) ==
  IF a[1] # b[1] THEN (IF a[1] > b[1] THEN 1 ELSE -1)
  ELSE IF a[2] # b[2] THEN (IF a[2] > b[2] THEN 1 ELSE -1)
  ELSE IF a[3] # b[3] THEN (IF a[3] > b[3] THEN 1 ELSE -1)
  ELSE 0

\* semverGt with the operands the wrong way round
semverGtSwapped(a, b) == cmp(a, b) = -1

semverGt(a, b) == cmp(a, b) = 1

(***************************************************************************)
(* semver.Range on the range strings the model uses: the parsed set, or    *)
(* ok = FALSE where the constructor throws.                                *)
(***************************************************************************)
semverRange(range) ==
  CASE range = "^1.0.0" ->
         [ok |-> TRUE, set |-> << <<Comparator(">=", SemVer(1, 0, 0)), Comparator("<", SemVer(2, 0, 0))>> >>]
    [] range = "1.5.0" ->
         [ok |-> TRUE, set |-> << <<Comparator("", SemVer(1, 5, 0))>> >>]
    [] range = "3.0.0" ->
         [ok |-> TRUE, set |-> << <<Comparator("", SemVer(3, 0, 0))>> >>]
    [] range = "*" ->
         [ok |-> TRUE, set |-> << <<AnyComparator>> >>]
    [] range = "1.0.0 || 2.0.0" ->
         [ok |-> TRUE, set |-> << <<Comparator("", SemVer(1, 0, 0))>>, <<Comparator("", SemVer(2, 0, 0))>> >>]
    [] range = ">=1.0.0 <2.0.0 <3.0.0" ->
         [ok |-> TRUE, set |-> << <<Comparator(">=", SemVer(1, 0, 0)), Comparator("<", SemVer(2, 0, 0)),
                                    Comparator("<", SemVer(3, 0, 0))>> >>]
    [] range = "<2.0.0 >=1.0.0" ->
         [ok |-> TRUE, set |-> << <<Comparator("<", SemVer(2, 0, 0)), Comparator(">=", SemVer(1, 0, 0))>> >>]
    [] OTHER -> [ok |-> FALSE, set |-> <<>>]

\* range.range === '': '*', 'x' and '' compile to the empty string
IsWildcard(parsed) == parsed.set = << <<AnyComparator>> >>

(***************************************************************************)
(* Key schema.  A key is kept as its fields; every name in it is escaped,  *)
(* so "!" separates the fields unambiguously and the text after the last   *)
(* "!" is <dependent> or <dependent>@<version>.                            *)
(***************************************************************************)
NoKind == ""
NoDep == <<>>
NoVer == <<>>

Key(fam, kind, dep, name, ver) ==
  [fam |-> fam, kind |-> kind, dep |-> dep, name |-> name, ver |-> ver]

PkgKey(dependent, version) == Key("pkg", NoKind, NoDep, dependent, version)
PkgLatestKey(dependent) == Key("pkg-latest", NoKind, NoDep, dependent, NoVer)
LatestVersionKey(dependent) == Key("latest-version", NoKind, NoDep, dependent, NoVer)
IndexKey(deptype, dependency, dependent, version) == Key("index", deptype, dependency, dependent, version)
IndexLatestKey(deptype, dependency, dependent) == Key("index-latest", deptype, dependency, dependent, NoVer)

\* data.key.substr(data.key.lastIndexOf('!') + 1)
KeyTail(k) == IF k.ver = NoVer THEN k.name ELSE k.name \o <<"@">> \o VersionString(k.ver)

(***************************************************************************)
(* Inputs: names, manifests, query arguments.                              *)
(***************************************************************************)
\* dependency names: escape() leaves the first alone and changes the second
DepD == <<"d">>
DepE == <<"e", "!">>
\* dependent names
PkgN == <<"n">>
\* a name that sorts after n in a scan
PkgO == <<"o", "!">>

NoDeps == <<>>

Manifest(name, version, deps, devDeps) ==
  [name |-> name, version |-> version, dependencies |-> deps, devDependencies |-> devDeps]

Versions == {<<k, 0, 0>> : k \in 1..MaxVersion}

\* the manifests stored: n with each dependency map, o! with d in both kinds
Pkgs ==
  {Manifest(PkgN, v, deps, NoDeps) :
     v \in Versions,
     deps \in {NoDeps, (DepD :> "^1.0.0"), (DepE :> "^1.0.0"),
                (DepD :> "not-a-range") @@ (DepE :> "^1.0.0")}}
  \cup {Manifest(PkgO, <<1, 0, 0>>, (DepD :> "^1.0.0"), (DepD :> "^1.0.0"))}

NoLimit == -1

QueryNames == {DepD, DepE}
QueryRanges == {"*", "1.5.0", "3.0.0", "1.0.0 || 2.0.0", ">=1.0.0 <2.0.0 <3.0.0", "<2.0.0 >=1.0.0"}
\* opts.limit: unset, 0 and 1
Limits == {NoLimit, 0, 1}
QueryOpts == [all : BOOLEAN, devDependencies : BOOLEAN, limit : Limits]

StoreProcs == {1, 2}
QueryProcs == {3}

(***************************************************************************)
(* State.                                                                  *)
(***************************************************************************)
VARIABLES
  db,      \* the store: key -> value
  lru,     \* the latest-version cache: name -> version
  lock,    \* the mutex: the callers of this._lock in order, the head holds it
  proc,    \* each call in progress: its position and its local variables
  calls,   \* calls made so far
  mt       \* the range functions tried on their own: inputs and results

vars == <<db, lru, lock, proc, calls, mt>>

Has(k) == k \in DOMAIN db

(***************************************************************************)
(* Db.prototype.store                                                      *)
(***************************************************************************)
NoPuts == [k \in {} |-> <<>>]

\* puts of one dependency map where a range that does not parse ends the loop
\* over the map
batchDependenciesAbort(pkg, deps, deptype, isLatest) ==
  LET dependent == escape(pkg.name)
      indexed == IF \A d \in DOMAIN deps : semverRange(deps[d]).ok THEN DOMAIN deps ELSE {}
      value(d) == EncodeRange(semverRange(deps[d]).set)
      keys == {IndexKey(deptype, escape(d), dependent, pkg.version) : d \in indexed}
      latestKeys == IF isLatest
                    THEN {IndexLatestKey(deptype, escape(d), dependent) : d \in indexed}
                    ELSE {}
      dependency(k) == CHOOSE d \in indexed : escape(d) = k.dep
  IN  [k \in keys \cup latestKeys |->
         IF k \in keys THEN value(dependency(k))
         ELSE [version |-> pkg.version, sets |-> value(dependency(k))]]

\* the puts of one dependency map, key -> value; a range that does not parse
\* is skipped
batchDependencies(pkg, deps, deptype, isLatest) ==
  LET dependent == escape(pkg.name)
      indexed == {d \in DOMAIN deps : semverRange(deps[d]).ok}
      value(d) == EncodeRange(semverRange(deps[d]).set)
      keys == {IndexKey(deptype, escape(d), dependent, pkg.version) : d \in indexed}
      latestKeys == IF isLatest
                    THEN {IndexLatestKey(deptype, escape(d), dependent) : d \in indexed}
                    ELSE {}
      dependency(k) == CHOOSE d \in indexed : escape(d) = k.dep
  IN  [k \in keys \cup latestKeys |->
         IF k \in keys THEN value(dependency(k))
         ELSE [version |-> pkg.version, sets |-> value(dependency(k))]]

\* a store that takes every package for the latest
IsLatestAlways(pkg, latest) == TRUE

\* isLatest = latest ? semverGt(pkg.version, latest) : true
IsLatest(pkg, latest) == IF latest # NoVersion THEN semverGt(pkg.version, latest) ELSE TRUE

\* the batch store() commits: the keys are distinct, so it is a map key -> value
StoreBatch(pkg, isLatest) ==
  batchDependencies(pkg, pkg.dependencies, "dep", isLatest)
  @@ batchDependencies(pkg, pkg.devDependencies, "dev", isLatest)
  @@ (PkgKey(escape(pkg.name), pkg.version) :> pkg)
  @@ (IF isLatest
      THEN (PkgLatestKey(escape(pkg.name)) :> pkg)
           @@ (LatestVersionKey(escape(pkg.name)) :> pkg.version)
      ELSE NoPuts)

\* db.batch(batch): every put becomes visible at once
ApplyBatch(store, batch) == batch @@ store

\* lru.get(name), undefined on a miss
LruGet(name) == IF name \in DOMAIN lru THEN lru[name] ELSE NoVersion

\* a release that leaves the mutex with its holder
ReleaseNever(q) == q

\* release(): the next caller in the queue takes the mutex
Release(q) == Tail(q)

\* a mutex that calls every caller at once
HoldsUnlocked(p) == lock # <<>>

\* this._lock(fn) has called fn for p: p is the first caller not yet released
Holds(p) == lock # <<>> /\ Head(lock) = p

Idle(p) == proc[p].pc \in {"idle", "done", "thrown"}

\* a call runs in the first free slot: the slots only name the calls in progress
FreeSlot(slots, p) ==
  /\ Idle(p)
  /\ \A o \in slots : Idle(o) => p <= o

\* store(pkg, cb): this._lock(fn)
StoreStart(bound) ==
  \E p \in StoreProcs, pkg \in Pkgs :
    /\ FreeSlot(StoreProcs, p)
    /\ calls < bound
    /\ calls' = calls + 1
    /\ lock' = Append(lock, p)
    /\ proc' = [proc EXCEPT ![p] = [pc |-> "lock", pkg |-> pkg, hit |-> FALSE,
                                     isLatest |-> FALSE, batch |-> NoPuts, err |-> FALSE]]
    /\ UNCHANGED <<db, lru, mt>>

StoreCall == StoreStart(MaxCalls)

\* the mutex is held and _getLatestVersion has answered: the batch is built,
\* the cache is set when the package is the latest, db.batch is issued
StoreLocked ==
  \E p \in StoreProcs :
    /\ proc[p].pc = "lock"
    /\ Holds(p)
    /\ LET pkg == proc[p].pkg
           cached == LruGet(pkg.name)
           key == LatestVersionKey(escape(pkg.name))
           latest == IF cached # NoVersion THEN cached
                     ELSE IF Has(key) THEN db[key] ELSE NoVersion
           isLatest == IsLatest(pkg, latest)
       IN  /\ proc' = [proc EXCEPT ![p].pc = "batch", ![p].hit = (cached # NoVersion),
                                   ![p].isLatest = isLatest,
                                   ![p].batch = StoreBatch(pkg, isLatest)]
           /\ lru' = IF isLatest THEN (pkg.name :> pkg.version) @@ lru ELSE lru
    /\ UNCHANGED <<db, lock, calls, mt>>

\* _getLatestVersion misses the cache and the get of !latest-version! fails:
\* release(cb, err)
StoreGetFails ==
  \E p \in StoreProcs :
    /\ proc[p].pc = "lock"
    /\ Holds(p)
    /\ LruGet(proc[p].pkg.name) = NoVersion
    /\ lock' = Release(lock)
    /\ proc' = [proc EXCEPT ![p].pc = "done", ![p].err = TRUE]
    /\ UNCHANGED <<db, lru, calls, mt>>

\* db.batch commits: release(cb, undefined)
StoreCommit ==
  \E p \in StoreProcs :
    /\ proc[p].pc = "batch"
    /\ db' = ApplyBatch(db, proc[p].batch)
    /\ lock' = Release(lock)
    /\ proc' = [proc EXCEPT ![p].pc = "done", ![p].batch = NoPuts]
    /\ UNCHANGED <<lru, calls, mt>>

\* db.batch fails and writes nothing: release(cb, err)
StoreCommitFails ==
  \E p \in StoreProcs :
    /\ proc[p].pc = "batch"
    /\ lock' = Release(lock)
    /\ proc' = [proc EXCEPT ![p].pc = "done", ![p].err = TRUE, ![p].batch = NoPuts]
    /\ UNCHANGED <<db, lru, calls, mt>>

\* hashlru drops the entry of a name once lru.set has been called for a
\* thousand names used more recently
LruEvict ==
  \E name \in DOMAIN lru :
    /\ lru' = [k \in DOMAIN lru \ {name} |-> lru[k]]
    /\ UNCHANGED <<db, lock, proc, calls, mt>>

(***************************************************************************)
(* Db.prototype.query                                                      *)
(***************************************************************************)
RECURSIVE SortByKey(_)
\* records in ascending key order: within one scan the keys differ in their tail only
SortByKey(keys) ==
  IF keys = {} THEN <<>>
  ELSE LET first == CHOOSE k \in keys :
                      \A o \in keys : o = k \/ StrLess(KeyTail(k), KeyTail(o))
       IN  <<first>> \o SortByKey(keys \ {first})

Take(seq, n) == IF n < 0 \/ n >= Len(seq) THEN seq ELSE SubSeq(seq, 1, n)

\* parseInt(opts.limit || -1, 10)
Limit(opts) == IF opts.limit = 0 THEN NoLimit ELSE opts.limit

\* db.createReadStream({gt: keyprefix + name + '!', lt: keyprefix + name + '!\xff', limit}):
\* the records under the prefix as the iterator's snapshot holds them
ReadStream(fam, kind, name, limit) ==
  LET keys == {k \in DOMAIN db : k.fam = fam /\ k.kind = kind /\ k.dep = name}
      sorted == SortByKey(keys)
  IN  Take([i \in 1..Len(sorted) |-> [key |-> sorted[i], value |-> db[sorted[i]]]], limit)

\* a filter that fetches the latest manifest for every scan
ManifestKeyLatest(opts, key) == PkgLatestKey(key.name)

\* (opts.all ? '!pkg!' : '!pkg-latest!') + dependent
ManifestKey(opts, key) ==
  IF opts.all THEN PkgKey(key.name, key.ver) ELSE PkgLatestKey(key.name)

\* deps && name in deps, with the name as query() escaped it
Declares(pkg, opts, name) ==
  LET deps == IF opts.devDependencies THEN pkg.devDependencies ELSE pkg.dependencies
  IN  name \in DOMAIN deps

NoData == [key |-> Key("", NoKind, NoDep, <<>>, NoVer), value |-> <<>>]

\* the filter calls back and waits for the next record
Resume(q) == [proc[q] EXCEPT !.pc = "scan", !.data = NoData, !.pkg = <<>>]

\* an error that ends the stream without reaching the callback
FailSilent(q) == [pc |-> "done", err |-> FALSE]

\* an error ends the stream: collect() calls back with it
Fail(q) == [pc |-> "done", err |-> TRUE]

\* query(name, range, opts, cb), up to pump(stream, filter); a range of several
\* groups or of an unsupported shape throws out of query()
QueryInvoke(q, n, range, opts, bound) ==
  /\ FreeSlot(QueryProcs, q)
  /\ calls < bound
  /\ calls' = calls + 1
  /\ LET name == escape(n)
         parsed == semverRange(range)
         wildcard == IsWildcard(parsed)
         keyfam == IF opts.all THEN "index" ELSE "index-latest"
         kind == IF opts.devDependencies THEN "dev" ELSE "dep"
         stream == ReadStream(keyfam, kind, name, Limit(opts))
         norm == IF Len(parsed.set) = 1 /\ ~wildcard THEN normalize(parsed.set[1])
                 ELSE Returns(<<>>)
         thrown == Len(parsed.set) # 1 \/ norm.thrown
     IN  proc' = [proc EXCEPT ![q] =
                    IF thrown THEN [pc |-> "thrown"]
                    ELSE [pc |-> "scan", name |-> name, opts |-> opts, wildcard |-> wildcard,
                          lquery |-> IF wildcard THEN <<>> ELSE LQuery(norm.value),
                          uquery |-> IF wildcard THEN <<>> ELSE UQuery(norm.value),
                          stream |-> stream, data |-> NoData, pkg |-> <<>>,
                          results |-> <<>>, cleaned |-> FALSE]]
  /\ UNCHANGED <<db, lru, lock, mt>>

QueryStart(bound) ==
  \E q \in QueryProcs, n \in QueryNames, range \in QueryRanges, opts \in QueryOpts :
    QueryInvoke(q, n, range, opts, bound)

QueryCall == QueryStart(MaxCalls)

\* the filter takes the next scan record: skipped when it does not match,
\* else the get of its manifest is issued
QueryRecord ==
  \E q \in QueryProcs :
    /\ proc[q].pc = "scan"
    /\ proc[q].stream # <<>>
    /\ LET data == Head(proc[q].stream)
           sets == IF proc[q].opts.all THEN data.value ELSE data.value.sets
           skip == ~proc[q].wildcard /\ ~match(sets, proc[q].lquery, proc[q].uquery)
       IN  proc' = [proc EXCEPT ![q].stream = Tail(proc[q].stream),
                                ![q].pc = IF skip THEN "scan" ELSE "get",
                                ![q].data = IF skip THEN NoData ELSE data]
    /\ UNCHANGED <<db, lru, lock, calls, mt>>

\* the scan has ended: collect() calls back with the manifests in results
QueryEnd ==
  \E q \in QueryProcs :
    /\ proc[q].pc = "scan"
    /\ proc[q].stream = <<>>
    /\ proc' = [proc EXCEPT ![q] = [pc |-> "done", err |-> FALSE]]
    /\ UNCHANGED <<db, lru, lock, calls, mt>>

\* the get of the manifest answers: emitted when all is set or when the latest
\* manifest declares the name, else the cleanup asks for the mutex
QueryGot ==
  \E q \in QueryProcs :
    /\ proc[q].pc = "get"
    /\ LET key == ManifestKey(proc[q].opts, proc[q].data.key) IN
       IF ~Has(key)
       THEN /\ proc' = [proc EXCEPT ![q] = Fail(q)]
            /\ lock' = lock
       ELSE LET pkg == db[key] IN
            IF proc[q].opts.all \/ Declares(pkg, proc[q].opts, proc[q].name)
            THEN /\ proc' = [proc EXCEPT ![q] = [Resume(q) EXCEPT
                                                    !.results = Append(proc[q].results, pkg)]]
                 /\ lock' = lock
            ELSE /\ proc' = [proc EXCEPT ![q].pc = "cleanup", ![q].pkg = pkg]
                 /\ lock' = Append(lock, q)
    /\ UNCHANGED <<db, lru, calls, mt>>

\* the get of the manifest fails: the error ends the stream
QueryGetFails ==
  \E q \in QueryProcs :
    /\ proc[q].pc = "get"
    /\ proc' = [proc EXCEPT ![q] = Fail(q)]
    /\ UNCHANGED <<db, lru, lock, calls, mt>>

\* the cleanup holds the mutex and has re-read !latest-version!: the delete is
\* issued when it is still the fetched manifest's version, else done()
QueryCleanup ==
  \E q \in QueryProcs :
    /\ proc[q].pc = "cleanup"
    /\ Holds(q)
    /\ LET key == LatestVersionKey(proc[q].data.key.name) IN
       IF ~Has(key)
       THEN /\ proc' = [proc EXCEPT ![q] = Fail(q)]
            /\ lock' = Release(lock)
       ELSE IF db[key] # proc[q].pkg.version
       THEN /\ proc' = [proc EXCEPT ![q] = Resume(q)]
            /\ lock' = Release(lock)
       ELSE /\ proc' = [proc EXCEPT ![q].pc = "del"]
            /\ lock' = lock
    /\ UNCHANGED <<db, lru, calls, mt>>

\* the re-read of !latest-version! fails: done(err)
QueryCleanupFails ==
  \E q \in QueryProcs :
    /\ proc[q].pc = "cleanup"
    /\ Holds(q)
    /\ lock' = Release(lock)
    /\ proc' = [proc EXCEPT ![q] = Fail(q)]
    /\ UNCHANGED <<db, lru, calls, mt>>

\* a delete that takes the dependent's latest manifest with the index entry
DelWithManifest(store, key) ==
  [k \in DOMAIN store \ {key, PkgLatestKey(key.name)} |-> store[k]]

\* a delete that takes every entry of the same dependency with the stale one
DelScan(store, key) ==
  [k \in {j \in DOMAIN store : ~(j.fam = key.fam /\ j.kind = key.kind /\ j.dep = key.dep)} |-> store[k]]

\* db.del(key)
Del(store, key) == [k \in DOMAIN store \ {key} |-> store[k]]

\* db.del(data.key) completes: done()
QueryDel ==
  \E q \in QueryProcs :
    /\ proc[q].pc = "del"
    /\ db' = Del(db, proc[q].data.key)
    /\ lock' = Release(lock)
    /\ proc' = [proc EXCEPT ![q] = [Resume(q) EXCEPT !.cleaned = TRUE]]
    /\ UNCHANGED <<lru, calls, mt>>

\* db.del(data.key) fails: done(err)
QueryDelFails ==
  \E q \in QueryProcs :
    /\ proc[q].pc = "del"
    /\ lock' = Release(lock)
    /\ proc' = [proc EXCEPT ![q] = Fail(q)]
    /\ UNCHANGED <<db, lru, calls, mt>>

(***************************************************************************)
(* The database handle: Db(db) on an empty store, no call made.            *)
(***************************************************************************)
MtOff == [phase |-> "off"]

Init ==
  /\ db = <<>>
  /\ lru = <<>>
  /\ lock = <<>>
  /\ proc = [p \in StoreProcs \cup QueryProcs |-> [pc |-> "idle"]]
  /\ calls = 0
  /\ mt = MtOff

Next ==
  \/ StoreCall
  \/ StoreLocked
  \/ StoreGetFails
  \/ StoreCommit
  \/ StoreCommitFails
  \/ LruEvict
  \/ QueryCall
  \/ QueryRecord
  \/ QueryEnd
  \/ QueryGot
  \/ QueryGetFails
  \/ QueryCleanup
  \/ QueryCleanupFails
  \/ QueryDel
  \/ QueryDelFails

Spec == Init /\ [][Next]_vars

(***************************************************************************)
(* The same handle when no two calls overlap: a call is made only after    *)
(* every earlier call has called back (or thrown).                         *)
(***************************************************************************)
AllIdle == \A p \in StoreProcs \cup QueryProcs : Idle(p)

SeqStoreCall == AllIdle /\ StoreStart(MaxSeqCalls)

SeqQueryCall == AllIdle /\ QueryStart(MaxSeqCalls)

SeqNext ==
  \/ SeqStoreCall
  \/ StoreLocked
  \/ StoreGetFails
  \/ StoreCommit
  \/ StoreCommitFails
  \/ LruEvict
  \/ SeqQueryCall
  \/ QueryRecord
  \/ QueryEnd
  \/ QueryGot
  \/ QueryGetFails
  \/ QueryCleanup
  \/ QueryCleanupFails
  \/ QueryDel
  \/ QueryDelFails

SeqSpec == Init /\ [][SeqNext]_vars

(***************************************************************************)
(* The handle opened, with an empty cache, over the store that             *)
(* store(n@1.0.0 declaring d) and store(n@2.0.0 declaring nothing) leave:  *)
(* the entry !index-latest!dep!d!n is stale.  Every operation of the       *)
(* underlying store completes, with success or with an error: the read of  *)
(* the latest version, the batch, the cleanup's re-read and its delete.    *)
(***************************************************************************)
StaleStore ==
  ApplyBatch(ApplyBatch(<<>>, StoreBatch(Manifest(PkgN, <<1, 0, 0>>, (DepD :> "^1.0.0"), NoDeps), TRUE)),
             StoreBatch(Manifest(PkgN, <<2, 0, 0>>, NoDeps, NoDeps), TRUE))

LiveInit ==
  /\ db = StaleStore
  /\ lru = <<>>
  /\ lock = <<>>
  /\ proc = [p \in StoreProcs \cup QueryProcs |-> [pc |-> "idle"]]
  /\ calls = 0
  /\ mt = MtOff

LiveStoreCall == StoreStart(MaxLiveCalls)

LiveQueryCall == QueryStart(MaxLiveCalls)

LiveNext ==
  \/ LiveStoreCall
  \/ StoreLocked
  \/ StoreGetFails
  \/ StoreCommit
  \/ StoreCommitFails
  \/ LruEvict
  \/ LiveQueryCall
  \/ QueryRecord
  \/ QueryEnd
  \/ QueryGot
  \/ QueryGetFails
  \/ QueryCleanup
  \/ QueryCleanupFails
  \/ QueryDel
  \/ QueryDelFails

LiveSpec ==
  /\ LiveInit /\ [][LiveNext]_vars
  /\ WF_vars(StoreLocked \/ StoreGetFails)
  /\ WF_vars(StoreCommit \/ StoreCommitFails)
  /\ WF_vars(QueryCleanup \/ QueryCleanupFails)
  /\ WF_vars(QueryDel \/ QueryDelFails)

(***************************************************************************)
(* The range functions on their own: a stored range and a query range are  *)
(* drawn, then encoded, normalized and matched as store() and query() do.  *)
(***************************************************************************)
MatchVersions == {SemVer(1, mi, pa) : mi \in 0..MaxMinor, pa \in 0..MaxPatch}

Operators == {"any", "", "<", "<=", ">", ">="}

Comparators == {Comparator(op, v) : op \in Operators \ {"any"}, v \in MatchVersions}
               \cup {AnyComparator}

\* one conjunction of one comparator, or of a lower and an upper comparator
Conjunctions ==
  {<<c>> : c \in Comparators}
  \cup {<<lo, up>> : lo \in {c \in Comparators : c.operator \in {">", ">="}},
                     up \in {c \in Comparators : c.operator \in {"<", "<="}}}

\* stored ranges: one group, or a disjunction of two single comparators
StoredRanges ==
  {<<g>> : g \in Conjunctions}
  \cup {<< <<a>>, <<b>> >> : a \in Comparators, b \in Comparators}

InitMatch ==
  /\ db = <<>>
  /\ lru = <<>>
  /\ lock = <<>>
  /\ proc = [p \in StoreProcs \cup QueryProcs |-> [pc |-> "idle"]]
  /\ calls = 0
  /\ mt \in [phase : {"input"}, R : StoredRanges, Q : Conjunctions]

\* value = encode(R); norm = normalize(Q); match(value, lquery, uquery)
RunMatch ==
  /\ mt.phase = "input"
  /\ LET value == EncodeRange(mt.R)
         norm == normalize(mt.Q)
     IN  mt' = [phase |-> "done", R |-> mt.R, Q |-> mt.Q, value |-> value, norm |-> norm,
                res |-> ~norm.thrown /\ match(value, LQuery(norm.value), UQuery(norm.value))]
  /\ UNCHANGED <<db, lru, lock, proc, calls>>

MatchNext == RunMatch

MatchSpec == InitMatch /\ [][MatchNext]_vars

(***************************************************************************)
(* What a version, a comparator and a range mean (node-semver), for the    *)
(* statements about overlap.                                               *)
(***************************************************************************)
VLess(a, b) ==
  \/ a.major < b.major
  \/ a.major = b.major /\ a.minor < b.minor
  \/ a.major = b.major /\ a.minor = b.minor /\ a.patch < b.patch

Satisfies(v, c) ==
  CASE c.operator = "any" -> TRUE
    [] c.operator = "" -> v = c.semver
    [] c.operator = "<" -> VLess(v, c.semver)
    [] c.operator = "<=" -> VLess(v, c.semver) \/ v = c.semver
    [] c.operator = ">" -> VLess(c.semver, v)
    [] c.operator = ">=" -> VLess(c.semver, v) \/ v = c.semver

\* the versions tried: every bound of a drawn comparator, and one step around it
ProbeVersions ==
  {SemVer(ma, mi, pa) : ma \in 0..2, mi \in 0..(MaxMinor + 1), pa \in 0..(MaxPatch + 1)}

\* some version satisfies a group of the stored range R and the query conjunction Q
Overlaps(R, Q) ==
  \E v \in ProbeVersions :
    /\ \E g \in 1..Len(R) : \A i \in 1..Len(R[g]) : Satisfies(v, R[g][i])
    /\ \A i \in 1..Len(Q) : Satisfies(v, Q[i])

\* C1: safe over-approximation.  Whenever some version satisfies both the
\* stored range R and the supported query range Q, match(encode(R),
\* normalize(Q)) is true: the index has no false negatives.
C1_SafeOverApproximation ==
  (mt.phase = "done" /\ ~mt.norm.thrown /\ Overlaps(mt.R, mt.Q)) => mt.res

\* version a is later than version b in semver precedence
Newer(a, b) ==
  \/ a[1] > b[1]
  \/ a[1] = b[1] /\ a[2] > b[2]
  \/ a[1] = b[1] /\ a[2] = b[2] /\ a[3] > b[3]

(***************************************************************************)
(* Statements about calls that do not overlap (SeqSpec).                   *)
(***************************************************************************)
\* the scan of q has ended without an error: cb(null, results) is next
QueryDone(q) == proc[q].pc = "scan" /\ proc[q].stream = <<>>

\* q is between its call and its callback
InQuery(q) == proc[q].pc \in {"scan", "get", "cleanup", "del"}

\* the last store() has called back with success, for the manifest pkg
LastStored(p) == proc[p].pc = "done" /\ ~proc[p].err

KindDeps(pkg, dev) == IF dev THEN pkg.devDependencies ELSE pkg.dependencies

Returned(q, dependent) ==
  \E i \in 1..Len(proc[q].results) : proc[q].results[i].name = dependent

\* C2: lazy-cleanup correctness.  N was stored as latest declaring D (its
\* !index-latest!dep!D!N entry carries that version), the last store() since
\* succeeded for a greater version of N that does not declare D, and no call
\* overlaps: when a latest-only query for D with no limit (wildcard, or a range
\* overlapping the stale entry) completes, N was not returned and the entry is absent.
\* A query returns N only for an entry it leaves in place, so both parts fail
\* together with the entry still being there.
C2_LazyCleanup ==
  \A q \in QueryProcs, p \in StoreProcs, D \in QueryNames :
    (/\ QueryDone(q)
     /\ ~proc[q].opts.all /\ ~proc[q].opts.devDependencies
     /\ proc[q].opts.limit = NoLimit
     /\ proc[q].name = escape(D)
     /\ LastStored(p)
     /\ D \notin DOMAIN proc[p].pkg.dependencies)
    => LET N == proc[p].pkg.name
           key == IndexLatestKey("dep", escape(D), escape(N))
           stale == /\ Has(key)
                    /\ Newer(proc[p].pkg.version, db[key].version)
                    /\ \/ proc[q].wildcard
                       \/ match(db[key].sets, proc[q].lquery, proc[q].uquery)
       IN  ~stale /\ (Has(key) /\ Newer(proc[p].pkg.version, db[key].version)
                        => ~Returned(q, N))

\* C3: soundness of latest-only queries.  Every manifest a latest-only query
\* with a non-wildcard range has emitted declares the queried name, in the
\* requested kind, with a range whose encoding overlaps the query interval.
C3_LatestQuerySound ==
  \A q \in QueryProcs, D \in QueryNames :
    (InQuery(q) /\ ~proc[q].opts.all /\ ~proc[q].wildcard /\ proc[q].name = escape(D))
    => \A i \in 1..Len(proc[q].results) :
         LET deps == KindDeps(proc[q].results[i], proc[q].opts.devDependencies) IN
         /\ D \in DOMAIN deps
         /\ semverRange(deps[D]).ok
         /\ match(EncodeRange(semverRange(deps[D]).set), proc[q].lquery, proc[q].uquery)

\* C4: completeness of latest-only wildcard queries.  When a latest-only
\* wildcard query for D with no limit completes, it has returned every dependent whose
\* current !pkg-latest! manifest declares D, in the requested kind, with a
\* parseable range; also for names that escaping changes.
C4_WildcardComplete ==
  \A q \in QueryProcs, D \in QueryNames, N \in {PkgN, PkgO} :
    (/\ QueryDone(q)
     /\ ~proc[q].opts.all /\ proc[q].wildcard
     /\ proc[q].opts.limit = NoLimit
     /\ proc[q].name = escape(D)
     /\ Has(PkgLatestKey(escape(N)))
     /\ LET deps == KindDeps(db[PkgLatestKey(escape(N))], proc[q].opts.devDependencies)
        IN  D \in DOMAIN deps /\ semverRange(deps[D]).ok)
    => \E i \in 1..Len(proc[q].results) : proc[q].results[i] = db[PkgLatestKey(escape(N))]

(***************************************************************************)
(* Statements about every interleaving of calls (Spec).                    *)
(***************************************************************************)
Dependents == {PkgN, PkgO}

\* C5: latest monotonicity.  In every step, a !latest-version!N key that is
\* present stays present, and its value is kept or replaced by a strictly
\* greater version.
C5_LatestMonotonic ==
  [][\A N \in Dependents :
       LET key == LatestVersionKey(escape(N)) IN
       Has(key) => /\ key \in DOMAIN db'
                   /\ db'[key] = db[key] \/ Newer(db'[key], db[key])]_vars

\* n's pointer has moved up to 2.0.0 past the stored 1.0.0, and the last store
\* of n to complete was of 1.0.0, which did not take the pointer back
C5_Witness ==
  /\ Has(LatestVersionKey(escape(PkgN)))
  /\ db[LatestVersionKey(escape(PkgN))] = <<2, 0, 0>>
  /\ Has(PkgKey(escape(PkgN), <<1, 0, 0>>))
  /\ \E p \in StoreProcs :
       /\ LastStored(p)
       /\ proc[p].pkg.name = PkgN
       /\ proc[p].pkg.version = <<1, 0, 0>>
       /\ ~proc[p].isLatest

\* the dependencies of one kind whose range parses
Indexed(pkg, dev) == {d \in DOMAIN KindDeps(pkg, dev) : semverRange(KindDeps(pkg, dev)[d]).ok}

KindName(dev) == IF dev THEN "dev" ELSE "dep"

\* C6: latest-family consistency (the batch is atomic, so in every state).  If
\* !latest-version!N = V then !pkg-latest!N is the manifest stored at
\* !pkg!N@V, and every dependency D of kind K that manifest declares has an
\* !index-latest!K!D!N entry whose version is V.  Stated here for the
\* dependencies whose range parses only, which the claim implies.
C6_LatestFamilyConsistent ==
  \A N \in Dependents :
    LET tok == escape(N) IN
    Has(LatestVersionKey(tok)) =>
      LET V == db[LatestVersionKey(tok)] IN
      /\ Has(PkgLatestKey(tok)) /\ Has(PkgKey(tok, V))
      /\ db[PkgLatestKey(tok)] = db[PkgKey(tok, V)]
      /\ \A dev \in BOOLEAN : \A D \in Indexed(db[PkgKey(tok, V)], dev) :
           /\ Has(IndexLatestKey(KindName(dev), escape(D), tok))
           /\ db[IndexLatestKey(KindName(dev), escape(D), tok)].version = V

\* C7: per-version records never go stale.  For every !index!K!D!N@V entry
\* the manifest at !pkg!N@V declares D in kind K.
C7_PerVersionNeverStale ==
  \A k \in DOMAIN db :
    k.fam = "index" =>
      /\ Has(PkgKey(k.name, k.ver))
      /\ \E D \in DOMAIN KindDeps(db[PkgKey(k.name, k.ver)], k.kind = "dev") : escape(D) = k.dep

\* C8: frame of deletion.  In every step (a) no key outside the
\* !index-latest! family leaves the store; (b) a key leaves the store only as
\* the one scan record of a latest-only query that is deleting it, and every
\* other key keeps its value; (c) a step of a query with `all` set leaves the
\* store unchanged.
C8_DeletionFrame ==
  [][/\ \A k \in DOMAIN db : k.fam # "index-latest" => k \in DOMAIN db'
     /\ \A k \in DOMAIN db \ DOMAIN db' :
          \E q \in QueryProcs :
            /\ proc[q].pc = "del" /\ proc'[q].pc # "del"
            /\ ~proc[q].opts.all
            /\ k = proc[q].data.key
            /\ db' = [j \in DOMAIN db \ {k} |-> db[j]]
     /\ \A q \in QueryProcs :
          (/\ InQuery(q) /\ proc[q].opts.all
           /\ proc'[q].pc # proc[q].pc \/ proc'[q].stream # proc[q].stream)
          => db' = db]_vars

\* a store of N as latest has committed an !index-latest!dep!D!N entry, N's
\* pointer and manifests are all still in the store, and the entry is gone:
\* a query has deleted it
C8_Witness ==
  \E p \in StoreProcs :
    /\ LastStored(p) /\ proc[p].isLatest
    /\ LET pkg == proc[p].pkg
           tok == escape(pkg.name)
       IN  \E D \in Indexed(pkg, FALSE) :
             /\ ~Has(IndexLatestKey("dep", escape(D), tok))
             /\ Has(IndexKey("dep", escape(D), tok, pkg.version))
             /\ Has(PkgKey(tok, pkg.version))
             /\ Has(PkgLatestKey(tok))
             /\ Has(LatestVersionKey(tok))

\* the store() calls of the two slots have both called back with success
BothStored == calls = 2 /\ \A p \in StoreProcs : LastStored(p)

\* C9: serialization of writers.  No two store() calls are between the read
\* of the latest version and the commit at once; and when two store() calls
\* of versions V1 < V2 of one name, the second made before the first called
\* back, have both succeeded (in either order), !latest-version!N = V2,
\* !pkg-latest!N is the V2 manifest, and every dependency V2 declares with a
\* parseable range has an !index-latest! entry carrying V2.
C9_WritersSerialized ==
  /\ \A p1 \in StoreProcs, p2 \in StoreProcs :
       (proc[p1].pc = "batch" /\ proc[p2].pc = "batch") => p1 = p2
  /\ \A p1 \in StoreProcs, p2 \in StoreProcs :
       (/\ BothStored
        /\ proc[p1].pkg.name = proc[p2].pkg.name
        /\ Newer(proc[p2].pkg.version, proc[p1].pkg.version))
       => LET pkg == proc[p2].pkg
              tok == escape(pkg.name)
          IN  /\ Has(LatestVersionKey(tok)) /\ db[LatestVersionKey(tok)] = pkg.version
              /\ Has(PkgLatestKey(tok)) /\ db[PkgLatestKey(tok)] = pkg
              /\ \A dev \in BOOLEAN : \A D \in Indexed(pkg, dev) :
                   /\ Has(IndexLatestKey(KindName(dev), escape(D), tok))
                   /\ db[IndexLatestKey(KindName(dev), escape(D), tok)].version = pkg.version

\* two overlapping stores of n have both succeeded; the one that entered the
\* mutex second stored the lower version and saw the first's pointer
C9_Witness ==
  /\ BothStored
  /\ proc[1].pkg.name = PkgN /\ proc[2].pkg.name = PkgN
  /\ proc[1].pkg.version = <<2, 0, 0>> /\ proc[1].isLatest
  /\ proc[2].pkg.version = <<1, 0, 0>> /\ ~proc[2].isLatest
  /\ Indexed(proc[1].pkg, FALSE) # {}

\* C10: cache coherence.  In every state where no store() is between its
\* cache update and the completion of its batch, an entry of the
\* latest-version cache for N equals the value of !latest-version!N.
C10_CacheCoherent ==
  (\A p \in StoreProcs : proc[p].pc # "batch") =>
    \A N \in DOMAIN lru :
      /\ Has(LatestVersionKey(escape(N)))
      /\ db[LatestVersionKey(escape(N))] = lru[N]

(***************************************************************************)
(* Statements about query() and store() one call at a time.                *)
(***************************************************************************)
\* the range has several groups, more than two comparators, or two
\* comparators that are not a lower bound followed by an upper bound
UnsupportedShape(range) ==
  LET set == semverRange(range).set IN
  \/ Len(set) > 1
  \/ Len(set[1]) > 2
  \/ /\ Len(set[1]) = 2
     /\ ~(set[1][1].operator \in {">", ">="} /\ set[1][2].operator \in {"<", "<="})

InvalidRanges == {range \in QueryRanges : UnsupportedShape(range)}

\* C11: InvalidQueryRange.  A query() whose range has an unsupported shape
\* leaves the store unchanged and ends as a completed call whose callback got
\* the error: it does not leave query() by an exception with the callback
\* never invoked.
C11_InvalidRangeCallsBack ==
  [][\A q \in QueryProcs, n \in QueryNames, range \in InvalidRanges, opts \in QueryOpts :
       QueryInvoke(q, n, range, opts, MaxCalls)
       => /\ db' = db
          /\ proc'[q].pc = "done"
          /\ proc'[q].err]_vars

\* what the filter does with one scan record when every read succeeds, for a
\* query with the arguments of rec: the record is skipped, its manifest is
\* emitted, or a key that is not found ends the stream with the error
FilterRecord(rec, data) ==
  LET sets == IF rec.opts.all THEN data.value ELSE data.value.sets
      key == ManifestKey(rec.opts, data.key)
  IN  IF ~rec.wildcard /\ ~match(sets, rec.lquery, rec.uquery) THEN [out |-> "skip"]
      ELSE IF ~Has(key) THEN [out |-> "error"]
      ELSE IF rec.opts.all \/ Declares(db[key], rec.opts, rec.name)
      THEN [out |-> "emit", pkg |-> db[key]]
      ELSE IF ~Has(LatestVersionKey(data.key.name)) THEN [out |-> "error"]
      ELSE [out |-> "skip"]

RECURSIVE Collect(_, _)
\* collect(filter, cb) over a whole stream with no call interleaved
Collect(rec, stream) ==
  IF stream = <<>> THEN [err |-> FALSE, results |-> <<>>]
  ELSE LET this == FilterRecord(rec, Head(stream))
           rest == Collect(rec, Tail(stream))
       IN  IF this.out = "error" THEN [err |-> TRUE, results |-> <<>>]
           ELSE IF rest.err THEN rest
           ELSE [err |-> FALSE,
                 results |-> (IF this.out = "emit" THEN <<this.pkg>> ELSE <<>>) \o rest.results]

\* the outcome of query() called again now with the arguments of q
Again(q) ==
  LET rec == proc[q]
      keyfam == IF rec.opts.all THEN "index" ELSE "index-latest"
      kind == IF rec.opts.devDependencies THEN "dev" ELSE "dep"
  IN  Collect(rec, ReadStream(keyfam, kind, rec.name, Limit(rec.opts)))

\* C12: query idempotence.  When a query completes with no call overlapping
\* it, the identical query made next returns the same sequence of manifests,
\* whether or not the first one deleted stale entries.
C12_QueryIdempotent ==
  \A q \in QueryProcs :
    QueryDone(q) => (~Again(q).err /\ Again(q).results = proc[q].results)

\* C12 for queries with `limit` unset
C12_QueryIdempotentNoLimit ==
  \A q \in QueryProcs :
    (QueryDone(q) /\ proc[q].opts.limit = NoLimit)
    => (~Again(q).err /\ Again(q).results = proc[q].results)

\* a latest-only query with no limit has deleted a stale entry and returned
\* another dependent
C12_Witness ==
  \E q \in QueryProcs :
    /\ QueryDone(q) /\ proc[q].opts.limit = NoLimit
    /\ proc[q].cleaned
    /\ proc[q].results # <<>>

\* the dependencies of one kind whose range does not parse
Unparseable(pkg, dev) ==
  {d \in DOMAIN KindDeps(pkg, dev) : ~semverRange(KindDeps(pkg, dev)[d]).ok}

\* the key keeps its value, or stays absent, in this step
KeyUntouched(k) ==
  IF Has(k) THEN k \in DOMAIN db' /\ db'[k] = db[k] ELSE k \notin DOMAIN db'

\* C13: unparseable stored range.  When the batch of a store(m) commits, it
\* writes m at !pkg!N@V, and at !pkg-latest!N with V at !latest-version!N when
\* the store takes m for the latest; it writes neither index entry of a
\* dependency whose range does not parse; and it writes the !index! entry,
\* and for the latest the !index-latest! entry, of every dependency whose
\* range parses.
C13_UnparseableSkipped ==
  [][\A p \in StoreProcs :
       (proc[p].pc = "batch" /\ proc'[p].pc = "done" /\ ~proc'[p].err)
       => LET pkg == proc[p].pkg
              tok == escape(pkg.name)
              V == pkg.version
              latest == proc[p].isLatest
          IN  /\ PkgKey(tok, V) \in DOMAIN db' /\ db'[PkgKey(tok, V)] = pkg
              /\ latest => /\ PkgLatestKey(tok) \in DOMAIN db'
                           /\ db'[PkgLatestKey(tok)] = pkg
                           /\ LatestVersionKey(tok) \in DOMAIN db'
                           /\ db'[LatestVersionKey(tok)] = V
              /\ \A dev \in BOOLEAN : \A D \in Unparseable(pkg, dev) :
                   /\ KeyUntouched(IndexKey(KindName(dev), escape(D), tok, V))
                   /\ KeyUntouched(IndexLatestKey(KindName(dev), escape(D), tok))
              /\ \A dev \in BOOLEAN : \A D \in Indexed(pkg, dev) :
                   LET sets == EncodeRange(semverRange(KindDeps(pkg, dev)[D]).set)
                       key == IndexKey(KindName(dev), escape(D), tok, V)
                       latestKey == IndexLatestKey(KindName(dev), escape(D), tok)
                   IN  /\ key \in DOMAIN db' /\ db'[key] = sets
                       /\ latest => /\ latestKey \in DOMAIN db'
                                    /\ db'[latestKey] = [version |-> V, sets |-> sets]]_vars

\* a store of a manifest with an unparseable and a parseable range has
\* succeeded as latest: its manifests and the parseable dependency's entries
\* are in the store, and the unparseable one has no entry
C13_Witness ==
  \E p \in StoreProcs :
    /\ LastStored(p) /\ proc[p].isLatest
    /\ LET pkg == proc[p].pkg
           tok == escape(pkg.name)
       IN  /\ Unparseable(pkg, FALSE) # {} /\ Indexed(pkg, FALSE) # {}
           /\ Has(PkgKey(tok, pkg.version)) /\ Has(PkgLatestKey(tok))
           /\ \A D \in Indexed(pkg, FALSE) :
                /\ Has(IndexKey("dep", escape(D), tok, pkg.version))
                /\ Has(IndexLatestKey("dep", escape(D), tok))
           /\ \A D \in Unparseable(pkg, FALSE) :
                /\ ~Has(IndexKey("dep", escape(D), tok, pkg.version))
                /\ ~Has(IndexLatestKey("dep", escape(D), tok))

\* the !index-latest! keys of dependent tok, before or after the step
LatestEntries(tok, store) == {k \in DOMAIN store : k.fam = "index-latest" /\ k.name = tok}

\* C14: frame of a non-latest store.  A step of a store() of N at a version
\* not greater than the current !latest-version!N, be it the step that reads
\* the latest version (from the cache or, on a miss, from the store) and sets
\* the cache, or the commit of the batch, leaves !latest-version!N,
\* !pkg-latest!N, every !index-latest!K!D!N key and the cache entry of N
\* unchanged.
C14_NonLatestFrame ==
  [][\A p \in StoreProcs :
       LET pkg == proc[p].pkg
           tok == escape(pkg.name)
       IN  (/\ proc[p].pc \in {"lock", "batch"}
            /\ proc'[p].pc # proc[p].pc
            /\ Has(LatestVersionKey(tok))
            /\ ~Newer(pkg.version, db[LatestVersionKey(tok)]))
           => /\ KeyUntouched(LatestVersionKey(tok))
              /\ KeyUntouched(PkgLatestKey(tok))
              /\ \A k \in LatestEntries(tok, db) \cup LatestEntries(tok, db') : KeyUntouched(k)
              /\ (pkg.name \in DOMAIN lru) = (pkg.name \in DOMAIN lru')
              /\ pkg.name \in DOMAIN lru => lru'[pkg.name] = lru[pkg.name]]_vars

\* a store of a version below the pointer has succeeded after a cache miss,
\* with the latest version read from the store: the cache has no entry for
\* the name, and the pointer, the latest manifest and an entry of the latest
\* family stand
C14_Witness ==
  \E p \in StoreProcs :
    /\ LastStored(p) /\ ~proc[p].isLatest /\ ~proc[p].hit
    /\ LET pkg == proc[p].pkg
           tok == escape(pkg.name)
       IN  /\ pkg.name \notin DOMAIN lru
           /\ Has(PkgKey(tok, pkg.version))
           /\ Has(LatestVersionKey(tok))
           /\ Newer(db[LatestVersionKey(tok)], pkg.version)
           /\ Has(PkgLatestKey(tok))
           /\ db[PkgLatestKey(tok)].version = db[LatestVersionKey(tok)]
           /\ LatestEntries(tok, db) # {}
           /\ pkg.dependencies # db[PkgLatestKey(tok)].dependencies

\* C15: limit bound.  A query called with limit = n, n >= 0 and n = 0
\* included, reads at most n records from its scan and so returns at most n
\* manifests: at any point of the query the records still to be read and the
\* manifests emitted are each at most n.
C15_LimitBounds ==
  \A q \in QueryProcs :
    (InQuery(q) /\ proc[q].opts.limit >= 0)
    => /\ Len(proc[q].stream) <= proc[q].opts.limit
       /\ Len(proc[q].results) <= proc[q].opts.limit

\* q has completed as a query of every version for D, with no limit, after
\* the store p of N succeeded as latest with a manifest that does not declare
\* D; N declared D at the lower version V1 with a range the query overlaps
\* (any !index-latest!dep!D!N entry still there is the one of V1)
AllQueryAfterDrop(q, p, D, V1) ==
  LET pkg == proc[p].pkg
      tok == escape(pkg.name)
      key == IndexKey("dep", escape(D), tok, V1)
      latestKey == IndexLatestKey("dep", escape(D), tok)
  IN  /\ QueryDone(q)
      /\ proc[q].opts.all /\ ~proc[q].opts.devDependencies
      /\ proc[q].opts.limit = NoLimit
      /\ proc[q].name = escape(D)
      /\ LastStored(p) /\ proc[p].isLatest
      /\ D \notin DOMAIN pkg.dependencies
      /\ Newer(pkg.version, V1)
      /\ Has(key)
      /\ proc[q].wildcard \/ match(db[key], proc[q].lquery, proc[q].uquery)
      /\ Has(latestKey) => db[latestKey].version = V1

ReturnedManifest(q, pkg) == \E i \in 1..Len(proc[q].results) : proc[q].results[i] = pkg

InLock(p) == \E i \in 1..Len(lock) : lock[i] = p

\* C17: store completion.  Every store() call that waits for the mutex or
\* for its batch eventually has called back, whatever the outcome of its
\* read and of its commit and whoever held the mutex before it; when its
\* callback has run the call is out of the mutex; and a call calls back once:
\* after the callback nothing happens to it until the slot takes a new call.
C17_StoreCompletes ==
  /\ \A p \in StoreProcs :
       (proc[p].pc \in {"lock", "batch"}) ~> (proc[p].pc = "done" /\ ~InLock(p))
  /\ [](\A p \in StoreProcs : proc[p].pc = "done" => ~InLock(p))
  /\ [][\A p \in StoreProcs :
          /\ proc[p].pc = "done" => proc'[p].pc \in {"done", "lock"}
          /\ (proc[p].pc # "done" /\ proc'[p].pc = "done") => proc[p].pc \in {"lock", "batch"}]_vars

\* a store() waits in the queue of the mutex behind the cleanup of a query
C17_Witness ==
  \E p \in StoreProcs, q \in QueryProcs :
    /\ proc[p].pc = "lock"
    /\ proc[q].pc \in {"cleanup", "del"}
    /\ Len(lock) >= 2 /\ lock[1] = q /\ lock[2] = p

\* the manifest declares, in the kind of the index key, the dependency the key names
DeclaresKeyed(pkg, key) ==
  \E D \in DOMAIN KindDeps(pkg, key.kind = "dev") : escape(D) = key.dep

\* C18: no false deletion under interleaving.  A step of a query's cleanup
\* that removes a key removes the !index-latest!K!D!N key of its scan record
\* in a state where !latest-version!N is the version of the manifest the
\* query fetched and the current !pkg-latest!N does not declare D in kind K;
\* and the cleanup whose re-read finds another version than the fetched
\* manifest's deletes nothing and goes on with the scan.
C18_NoFalseDeletion ==
  [][\A q \in QueryProcs :
       /\ (proc[q].pc = "del" /\ db' # db)
          => LET key == proc[q].data.key IN
             /\ db' = Del(db, key)
             /\ key.fam = "index-latest"
             /\ Has(LatestVersionKey(key.name))
             /\ db[LatestVersionKey(key.name)] = proc[q].pkg.version
             /\ Has(PkgLatestKey(key.name))
             /\ ~DeclaresKeyed(db[PkgLatestKey(key.name)], key)
       /\ (/\ proc[q].pc = "cleanup" /\ proc'[q].pc # "cleanup"
           /\ Has(LatestVersionKey(proc[q].data.key.name))
           /\ db[LatestVersionKey(proc[q].data.key.name)] # proc[q].pkg.version)
          => (db' = db /\ proc'[q].pc \in {"scan", "done"})]_vars

\* the step takes q out of the mutex, which it held, and passes the mutex on
\* to the next caller in the queue
ReleasedBy(q) == Holds(q) /\ lock' = Tail(lock) /\ \A i \in 1..Len(lock') : lock'[i] # q

\* the query goes on with the next scan record and has emitted nothing
Continues(q) ==
  /\ proc'[q].pc = "scan"
  /\ proc'[q].stream = proc[q].stream
  /\ proc'[q].results = proc[q].results

\* the error has ended the query: its callback has been called with it
Failed(q) == proc'[q].pc = "done" /\ proc'[q].err

\* C19: cleanup always releases and propagates.  A query is in the queue of
\* the mutex exactly while it is in its cleanup, and at most once; the cleanup
\* keeps the mutex from its re-read to the end of its delete and releases it
\* once on each path: the entry deleted or the cleanup aborted because the
\* latest moved, and the query continues with the next record having emitted
\* nothing; the re-read failed or the delete failed, and the error ends the
\* query and reaches its callback.
C19_CleanupReleases ==
  /\ [](\A q \in QueryProcs :
          /\ InLock(q) <=> proc[q].pc \in {"cleanup", "del"}
          /\ Cardinality({i \in 1..Len(lock) : lock[i] = q}) <= 1
          /\ proc[q].pc = "del" => Holds(q))
  /\ [][\A q \in QueryProcs :
          /\ (proc[q].pc = "cleanup" /\ proc'[q].pc # "cleanup")
             => \/ /\ proc'[q].pc = "del" /\ lock' = lock /\ db' = db
                   /\ Holds(q)
                   /\ db[LatestVersionKey(proc[q].data.key.name)] = proc[q].pkg.version
                \/ /\ ReleasedBy(q) /\ Continues(q) /\ db' = db
                   /\ Has(LatestVersionKey(proc[q].data.key.name))
                   /\ db[LatestVersionKey(proc[q].data.key.name)] # proc[q].pkg.version
                \/ ReleasedBy(q) /\ Failed(q) /\ db' = db
          /\ (proc[q].pc = "del" /\ proc'[q].pc # "del")
             => \/ /\ ReleasedBy(q) /\ Continues(q)
                   /\ proc[q].data.key \notin DOMAIN db'
                \/ ReleasedBy(q) /\ Failed(q) /\ db' = db]_vars

\* the cleanup has deleted the stale entry and released the mutex to a
\* store() that waited behind it; the query goes on, nothing emitted
C19_Witness ==
  \E q \in QueryProcs, p \in StoreProcs :
    /\ proc[q].pc = "scan" /\ proc[q].cleaned /\ proc[q].results = <<>>
    /\ ~InLock(q)
    /\ lock = <<p>> /\ proc[p].pc = "lock"

\* the versions of N whose manifest is in the store
StoredVersions(N) == {V \in Versions : Has(PkgKey(escape(N), V))}

\* C20: the latest pointer equals the maximum stored version.  In every
\* state where no store() is in flight, for every name N with a manifest in
\* the store, !latest-version!N exists and is the greatest version V with
\* !pkg!N@V in the store; batch commits may have failed before.
C20_PointerIsMaximum ==
  (\A p \in StoreProcs : Idle(p)) =>
    \A N \in Dependents :
      StoredVersions(N) # {} =>
        /\ Has(LatestVersionKey(escape(N)))
        /\ db[LatestVersionKey(escape(N))] \in StoredVersions(N)
        /\ \A V \in StoredVersions(N) : ~Newer(V, db[LatestVersionKey(escape(N))])

====
